---- MODULE Spec2Model ----
(***************************************************************************)
(* A model of the speaker/listener simulation of level_prag_learn.py (and  *)
(* of its level-1-only predecessor learn_pragmatics.py): the mental-state  *)
(* model, the literal listener, the pragmatic speaker, the pragmatic       *)
(* listener, production, the posterior update and the simulation loop.     *)
(***************************************************************************)
EXTENDS Integers, Sequences, FiniteSets, Bags, TLC

(***************************************************************************)
(* Exact arithmetic.  The program keeps every probability as a float in    *)
(* log space; the model keeps the probability itself as an exact fraction  *)
(* of natural numbers, so that log(a) + log(b) is the product a * b,       *)
(* logsumexp is the sum, alpha * log(a) is the power a^alpha and exp(log   *)
(* a) is a.  Naturals are unbounded: a natural is the sequence of its      *)
(* base-Base digits, least significant first, without leading zeros.       *)
(***************************************************************************)
Base == 10 * 10 * 10

Max2(a, b) == IF a >= b THEN a ELSE b
Min2(a, b) == IF a <= b THEN a ELSE b

\* TLC evaluates a function constructor point by point, and anew at every
\* application; f @@ << >> is f, evaluated once over its whole domain
Tabulate(f) == f @@ << >>

RECURSIVE BFromInt(_)
BFromInt(n) == IF n = 0 THEN << >> ELSE <<n % Base>> \o BFromInt(n \div Base)

Limb(a, k) == IF k >= 1 /\ k <= Len(a) THEN a[k] ELSE 0

RECURSIVE BTrim(_)
BTrim(a) ==
    IF a = << >> THEN a
    ELSE IF a[Len(a)] # 0 THEN a
    ELSE BTrim(SubSeq(a, 1, Len(a) - 1))

\* one carrying pass over digits that may lie outside 0 .. Base-1: every
\* position keeps its digit and receives the carry of the position below
CarryPass(s) ==
    LET n == Len(s)
        lo(k) == Limb(s, k) % Base
        carry(k) == (Limb(s, k) - lo(k)) \div Base
        f == [k \in 1..(n + 1) |-> lo(k) + carry(k - 1)]
    IN SubSeq(f, 1, n + 1)

RECURSIVE BNorm(_)
BNorm(s) ==
    IF \A k \in 1..Len(s) : s[k] >= 0 /\ s[k] < Base THEN BTrim(s)
    ELSE BNorm(CarryPass(s))

BAdd(a, b) ==
    BNorm(CarryPass([k \in 1..Max2(Len(a), Len(b)) |-> Limb(a, k) + Limb(b, k)]))

\* a - b for a >= b
BSub(a, b) ==
    BNorm(CarryPass([k \in 1..Len(a) |-> a[k] - Limb(b, k)]))

\* the sum of a[i] * b[k + 1 - i] for i in lo .. hi
RECURSIVE BConv(_, _, _, _, _)
BConv(a, b, k, lo, hi) ==
    IF lo > hi THEN 0
    ELSE IF lo = hi THEN a[lo] * b[k + 1 - lo]
    ELSE LET mid == (lo + hi) \div 2
         IN BConv(a, b, k, lo, mid) + BConv(a, b, k, mid + 1, hi)

BMul(a, b) ==
    IF a = << >> \/ b = << >> THEN << >>
    ELSE IF a = <<1>> THEN b
    ELSE IF b = <<1>> THEN a
    ELSE BNorm(CarryPass([k \in 1..(Len(a) + Len(b) - 1) |->
                 BConv(a, b, k, Max2(1, k + 1 - Len(b)), Min2(Len(a), k))]))

(***************************************************************************)
(* A fraction is a numerator n and a bag d of denominator factors: its     *)
(* value is n divided by the product of the factors.  No fraction is ever  *)
(* reduced; a division cancels the factors the two denominators share.     *)
(* Two fractions are compared by REq, never by =.                          *)
(***************************************************************************)
RECURSIVE BagProd(_)
BagProd(bag) ==
    IF bag = EmptyBag THEN <<1>>
    ELSE LET x == CHOOSE x \in BagToSet(bag) : TRUE
         IN BMul(x, BagProd(bag (-) SetToBag({x})))

Factor(x) == IF x = <<1>> THEN EmptyBag ELSE SetToBag({x})

Frac(num, den) == [n |-> BFromInt(num), d |-> Factor(BFromInt(den))]
RInt(k) == Frac(k, 1)
RZero == RInt(0)
ROne == RInt(1)

\* the numerator of a over the denominator that a and b share
Over(a, b) == BMul(a.n, BagProd(b.d (-) a.d))
Common(a, b) == a.d (+) (b.d (-) a.d)

REq(a, b) == Over(a, b) = Over(b, a)
RMul(a, b) == [n |-> BMul(a.n, b.n), d |-> a.d (+) b.d]
RDiv(a, b) == [n |-> Over(a, b), d |-> (a.d (-) b.d) (+) Factor(b.n)]
RAdd(a, b) == [n |-> BAdd(Over(a, b), Over(b, a)), d |-> Common(a, b)]
\* a - b for a >= b
RSub(a, b) == [n |-> BSub(Over(a, b), Over(b, a)), d |-> Common(a, b)]

RECURSIVE RPow(_, _)
RPow(a, k) == IF k = 0 THEN ROne ELSE RMul(a, RPow(a, k - 1))

\* the sum of v[i] over the indices i in S
RECURSIVE RSum(_, _)
RSum(v, S) ==
    IF S = {} THEN RZero
    ELSE LET x == CHOOSE y \in S : TRUE
         IN RAdd(v[x], RSum(v, S \ {x}))

(***************************************************************************)
(* Log space.  A value of the program that is a log-probability is held as *)
(* [log_of |-> p], p the probability: log and exp convert between the two, *)
(* and the operations of log space are those of the program.               *)
(***************************************************************************)
log(p) == [log_of |-> p]
exp(x) == x.log_of
LAdd(x, y) == log(RMul(exp(x), exp(y)))
LSub(x, y) == log(RDiv(exp(x), exp(y)))
LScale(k, x) == log(RPow(exp(x), k))
LEq(x, y) == REq(exp(x), exp(y))

\* numpy.exp and numpy.log of a vector
np_exp(v) == Tabulate([k \in DOMAIN v |-> exp(v[k])])
np_log(v) == Tabulate([k \in DOMAIN v |-> log(v[k])])

\* scipy.special.logsumexp of a vector of log-probabilities
logsumexp(v) == log(RSum(np_exp(v), DOMAIN v))

\* scipy.special.softmax of a vector of log-space utilities
softmax(v) ==
    LET e == np_exp(v)
        total == RSum(e, DOMAIN e)
    IN Tabulate([k \in DOMAIN v |-> RDiv(e[k], total)])

(***************************************************************************)
(* Parameters (level_prag_learn.py 219-227, learn_pragmatics.py 14-20).    *)
(* noise is 0.05, which is 1/20.                                           *)
(***************************************************************************)
noise == Frac(1, 20)
alpha == 3
num_signals == 3
perspectives == {0, 1}
pragmatic_levels == {0, 1}
meanings == {0, 1, 2}
signals == (0 :> "a" @@ 1 :> "b" @@ 2 :> "c")

\* the index of a signal in the alphabet: np.where(signals == signal),
\* signals.index(signal)
s_index(signal) == CHOOSE s \in DOMAIN signals : signals[s] = signal

(***************************************************************************)
(* utilities.normalize_logprobs: v_i - logsumexp(v) for every entry.       *)
(***************************************************************************)
normalize_logprobs(v) ==
    LET total == logsumexp(v)
    IN Tabulate([k \in DOMAIN v |-> LSub(v[k], total)])

(***************************************************************************)
(* The mental state.  A salience is a multiple of one tenth, held as its   *)
(* number of tenths; a perspective is 0 or 1.  math.log raises ValueError  *)
(* on an argument that is not positive: the result of a call that raises   *)
(* is [raised |-> TRUE], and it carries no value.                          *)
(***************************************************************************)
Tenths == 2 * 5

Abs(x) == IF x < 0 THEN -x ELSE x

\* 1 - abs(perspective - context[o]), in tenths
LogArgument(perspective, salience) ==
    Tenths - Abs(Tenths * perspective - salience)

\* faulty variant: log(0) passes as -inf, as numpy.log would have it
MathLogRaisesBelowZeroOnly(argument) == argument < 0

MathLogRaises(argument) == argument <= 0

calc_mental_state(perspective, context) ==
    IF \E o \in DOMAIN context :
           MathLogRaises(LogArgument(perspective, context[o]))
    THEN [raised |-> TRUE]
    ELSE [raised |-> FALSE,
          value |-> normalize_logprobs(Tabulate(
              [o \in DOMAIN context |->
                  log(Frac(LogArgument(perspective, context[o]), Tenths))]))]

(***************************************************************************)
(* The literal listener.                                                   *)
(***************************************************************************)
signals_for_r(language, meaning) ==
    {s \in DOMAIN signals : language[meaning][s] # "0"}

\* faulty variant: no special case for a row that uses every signal
list1_lit_spkr_always_noisy(signal, meaning, language, ref_distribution) ==
    LET num_signals_for_r == Cardinality(signals_for_r(language, meaning))
        len_signals == Cardinality(DOMAIN signals)
    IN IF s_index(signal) \in signals_for_r(language, meaning)
       THEN LAdd(ref_distribution[meaning],
                 log(RDiv(RSub(ROne, noise), RInt(num_signals_for_r))))
       ELSE LAdd(ref_distribution[meaning],
                 log(RDiv(noise, RInt(len_signals - num_signals_for_r))))

list1_lit_spkr(signal, meaning, language, ref_distribution) ==
    LET num_signals_for_r == Cardinality(signals_for_r(language, meaning))
        len_signals == Cardinality(DOMAIN signals)
    IN IF s_index(signal) \in signals_for_r(language, meaning)
       THEN LET in_language ==
                    IF num_signals_for_r = len_signals
                    THEN log(RDiv(ROne, RInt(num_signals_for_r)))
                    ELSE log(RDiv(RSub(ROne, noise), RInt(num_signals_for_r)))
            IN LAdd(ref_distribution[meaning], in_language)
       ELSE LET out_of_language ==
                    log(RDiv(noise, RInt(len_signals - num_signals_for_r)))
            IN LAdd(ref_distribution[meaning], out_of_language)

list1_perception_matrix(language, ref_distribution) ==
    Tabulate([s \in DOMAIN signals |->
        normalize_logprobs(Tabulate(
            [m \in meanings |->
                list1_lit_spkr(signals[s], m, language, ref_distribution)]))])

(***************************************************************************)
(* The pragmatic speaker: the log of the softmax, over the signals, of     *)
(* alpha times the listener's log-probability of the intended meaning.     *)
(***************************************************************************)
spkr1_production_probs(meaning, language, mental_state) ==
    LET mat == list1_perception_matrix(language, mental_state)
        signal_utility ==
            Tabulate([s \in DOMAIN signals |-> LScale(alpha, mat[s][meaning])])
    IN np_log(softmax(signal_utility))

(***************************************************************************)
(* The pragmatic listener.  The loop overwrites noisy_speaker_probs[s] in  *)
(* place, signal after signal, and reads the other entries from the same   *)
(* array: those before s have been overwritten already.                    *)
(***************************************************************************)
RECURSIVE NoisyLoop(_, _)
NoisyLoop(noisy_speaker_probs, s) ==
    IF s \notin DOMAIN noisy_speaker_probs THEN noisy_speaker_probs
    ELSE LET scaled == Tabulate([noisy_speaker_probs EXCEPT
                                    ![s] = LAdd(@, log(RSub(ROne, noise)))])
             other_signals ==
                 Tabulate([os \in DOMAIN scaled \ {s} |-> scaled[os]])
             mixed == logsumexp(
                 <<scaled[s],
                   LSub(LAdd(log(noise), logsumexp(other_signals)),
                        log(RInt(Cardinality(DOMAIN signals) - 1)))>>)
         IN NoisyLoop(Tabulate([scaled EXCEPT ![s] = mixed]), s + 1)

list2_spkr1(signal, meaning, language, ref_distribution) ==
    LET speaker_probs == spkr1_production_probs(meaning, language, ref_distribution)
        noisy_speaker_probs == NoisyLoop(speaker_probs, 0)
    IN LAdd(ref_distribution[meaning], noisy_speaker_probs[s_index(signal)])

(***************************************************************************)
(* The posterior update.  marginalize is the vector the loop body fills    *)
(* for one hypothesis (numpy.zeros where no branch assigns it).            *)
(***************************************************************************)
\* faulty variant: the pragmatic listener for every hypothesis, whatever
\* its level (what update_posterior of learn_pragmatics.py does)
marginalize_pragmatic_only(hypothesis, signal, ref_distribution) ==
    Tabulate([m \in meanings |->
        list2_spkr1(signal, m, hypothesis[0], ref_distribution)])

marginalize(hypothesis, signal, ref_distribution) ==
    LET language == hypothesis[0]
        pragmatic_lvl == hypothesis[2]
    IN IF pragmatic_lvl = 0
       THEN Tabulate([m \in meanings |->
                list1_lit_spkr(signal, m, language, ref_distribution)])
       ELSE IF pragmatic_lvl = 1
       THEN Tabulate([m \in meanings |->
                list2_spkr1(signal, m, language, ref_distribution)])
       ELSE Tabulate([m \in meanings |-> log(ROne)])

(***************************************************************************)
(* Production.  sample draws an index with the probability the vector      *)
(* gives it; utilities.wta draws an index of a largest item; a draw of     *)
(* numpy.random.choice is any element of the array.  produce_outcomes is   *)
(* the set of results produce can return, each with the draws behind it.   *)
(***************************************************************************)
sample(posterior) == {k \in DOMAIN posterior : exp(posterior[k]).n # << >>}

Weight(item) == IF item = "0" THEN 0 ELSE 1

wta(items) ==
    {s \in DOMAIN items : \A t \in DOMAIN items : Weight(items[t]) <= Weight(items[s])}

\* [signals[s] for s in range(len(meanings)) if language[meaning][s] == '1']
RECURSIVE signals_for_r_list(_, _, _)
signals_for_r_list(language, meaning, s) ==
    IF s >= Cardinality(meanings) THEN << >>
    ELSE IF language[meaning][s] = "1"
    THEN <<signals[s]>> \o signals_for_r_list(language, meaning, s + 1)
    ELSE signals_for_r_list(language, meaning, s + 1)

Range(f) == {f[x] : x \in DOMAIN f}

\* faulty variant: the copy of signals is returned with nothing removed
other_signals_kept(other_signals, remaining) == other_signals

\* for s in signals_for_r: other_signals = signals[np.where(signals != s)]
RECURSIVE other_signals_loop(_, _)
other_signals_loop(other_signals, remaining) ==
    IF remaining = << >> THEN other_signals
    ELSE other_signals_loop({x \in Range(signals) : x # Head(remaining)},
                            Tail(remaining))

\* the outcomes of random.random() < noise
noise_draws == {b \in BOOLEAN : b => noise.n # << >>}

Outcome(signal, meaning, intended, noise_branch, other_signals) ==
    [signal |-> signal, meaning |-> meaning, intended |-> intended,
     noise_branch |-> noise_branch, other_signals |-> other_signals]

produce_literal(language, meaning) ==
    LET for_r == signals_for_r_list(language, meaning, 0)
        num_signals_for_r == Len(for_r)
        others == other_signals_loop(Range(signals), for_r)
    IN UNION {IF draw /\ num_signals_for_r # 3
              THEN {Outcome(x, meaning, signals[u], TRUE, others) : x \in others}
              ELSE {Outcome(signals[u], meaning, signals[u], FALSE, {})} :
                 u \in wta(language[meaning]), draw \in noise_draws}

produce_pragmatic(language, meaning, mental_state) ==
    LET probs == spkr1_production_probs(meaning, language, mental_state)
    IN UNION {IF draw
              THEN LET others == Range(signals) \ {signals[u]}
                   IN {Outcome(x, meaning, signals[u], TRUE, others) : x \in others}
              ELSE {Outcome(signals[u], meaning, signals[u], FALSE, {})} :
                 u \in sample(probs), draw \in noise_draws}

produce_outcomes(system, context) ==
    LET language == system[0]
        perspective == system[1]
        pragmatic_lvl == system[2]
        mental_state == calc_mental_state(perspective, context).value
    IN UNION {IF pragmatic_lvl = 0 THEN produce_literal(language, meaning)
              ELSE IF pragmatic_lvl = 1
              THEN produce_pragmatic(language, meaning, mental_state)
              ELSE {} :
                 meaning \in sample(mental_state)}


(***************************************************************************)
(* Inputs.  A lexicon maps each meaning to a row of '0'/'1' per signal; a  *)
(* hypothesis is (lexicon, perspective, pragmatic level); a context gives  *)
(* the salience of each object, in tenths.  Python lists are functions on  *)
(* 0 .. n-1 here.                                                          *)
(***************************************************************************)
List2(a, b) == (0 :> a @@ 1 :> b)
List3(a, b, c) == (0 :> a @@ 1 :> b @@ 2 :> c)

\* each meaning has its own signal
LexOneToOne == List3(List3("1", "0", "0"), List3("0", "1", "0"), List3("0", "0", "1"))
\* the last meaning is associated with all signals, the first with two
LexAllForLast == List3(List3("1", "1", "0"), List3("0", "1", "0"), List3("1", "1", "1"))
\* only one signal is used for every meaning
LexOneSignal == List3(List3("1", "0", "0"), List3("1", "0", "0"), List3("1", "0", "0"))

\* a population of four hypotheses, two of each pragmatic level and two of
\* each perspective, over the lexicons main names for its speakers
hypotheses ==
    (0 :> List3(LexOneToOne, 1, 0) @@ 1 :> List3(LexAllForLast, 0, 0) @@
     2 :> List3(LexOneToOne, 1, 1) @@ 3 :> List3(LexOneSignal, 0, 1))

\* indices into hypotheses: the level-0 and the level-1 speakers
literal_speakers == List2(0, 1)
prag_speakers == List2(2, 3)

p_learner == 1

\* log(1/len) for every hypothesis
PriorUnbiased ==
    Tabulate([h \in DOMAIN hypotheses |-> log(Frac(1, Cardinality(DOMAIN hypotheses)))])

\* log(0.9) for the learner's own perspective, log(0.1) for the other,
\* plus log(1/number of hypotheses with that perspective)
PriorEgocentric ==
    Tabulate([h \in DOMAIN hypotheses |->
        LAdd(IF hypotheses[h][1] = p_learner THEN log(Frac(9, 10)) ELSE log(Frac(1, 10)),
             log(Frac(1, Cardinality({g \in DOMAIN hypotheses :
                                         hypotheses[g][1] = hypotheses[h][1]}))))])

num_productions == 2
num_runs == 2

\* the context list repeats a short cycle, as main repeats its 12 contexts.
\* The first cycle is of contexts main generates.  The other two end in a
\* context with a salience of 1.0 or of 0.0, at distance 1 from perspective
\* 0 or from perspective 1: main does not generate such a context, but
\* simulation takes any list of contexts.
ContextCycles ==
    { <<List3(1, 2, 9), List3(1, 2, 9), List3(9, 1, 8)>>,
      <<List3(1, 8, 9), List3(1, 2, 10)>>,
      <<List3(2, 9, 1), List3(0, 8, 9)>> }

ContextList(cycle) ==
    Tabulate([k \in 0..(num_productions - 1) |-> cycle[(k % Len(cycle)) + 1]])

None == << >>

Contexts == UNION {Range(cycle) : cycle \in ContextCycles}

\* what the loop body of update_posterior adds to posterior[i]:
\* logsumexp(marginalize) for hypothesis i.  It depends on the hypothesis,
\* the signal and the context only, so it is tabulated once.
added(h, signal, context) ==
    LET perspective == hypotheses[h][1]
        ref_distribution == calc_mental_state(perspective, context)
    IN IF ref_distribution.raised THEN None
       ELSE logsumexp(marginalize(hypotheses[h], signal, ref_distribution.value))

added_table ==
    Tabulate([x \in (DOMAIN hypotheses) \X Range(signals) \X Contexts |->
                 added(x[1], x[2], x[3])])

update_posterior_raises(posterior, context) ==
    \E h \in DOMAIN posterior : calc_mental_state(hypotheses[h][1], context).raised

\* faulty variant: new_posterior is returned without normalize_logprobs
update_posterior_unnormalized(posterior, signal, context) ==
    IF update_posterior_raises(posterior, context)
    THEN [raised |-> TRUE]
    ELSE [raised |-> FALSE,
          value |-> Tabulate(
              [h \in DOMAIN posterior |->
                  LAdd(posterior[h], added_table[<<h, signal, context>>])])]

\* faulty variant: new_posterior[h] = logsumexp(marginalize), without posterior[h]
update_posterior_forgetting(posterior, signal, context) ==
    IF update_posterior_raises(posterior, context)
    THEN [raised |-> TRUE]
    ELSE [raised |-> FALSE,
          value |-> normalize_logprobs(Tabulate(
              [h \in DOMAIN posterior |-> added_table[<<h, signal, context>>]]))]

update_posterior(posterior, signal, context) ==
    IF update_posterior_raises(posterior, context)
    THEN [raised |-> TRUE]
    ELSE [raised |-> FALSE,
          value |-> normalize_logprobs(Tabulate(
              [h \in DOMAIN posterior |->
                  LAdd(posterior[h], added_table[<<h, signal, context>>])]))]

(***************************************************************************)
(* The state.  priors, contexts, speakers: the globals and arguments main  *)
(* hands to simulation.  run, j: main's loop indices.  pc: where control   *)
(* is ("main", "loop" before produce, "update" before update_posterior,    *)
(* "raised" after a ValueError).  speaker, no_productions, i, posteriors,  *)
(* posterior_list, d: the arguments and locals of simulation.  post_list:  *)
(* what the last call returned to main.  passed, drawn and obs record what *)
(* the code does not keep: the array handed to the last update_posterior   *)
(* as it is after the call, the random draws of the last produce, and the  *)
(* observations folded in so far.  probe: the arguments and results of a   *)
(* listener function called on its own.                                    *)
(***************************************************************************)
VARIABLES priors, contexts, speakers, run, j, pc, speaker, no_productions,
          i, posteriors, posterior_list, passed, d, drawn, obs, post_list,
          probe

inputs == <<priors, contexts, speakers>>
main_vars == <<run, j>>
sim_vars == <<speaker, no_productions, i, posteriors, posterior_list, passed,
              d, drawn, obs>>
vars == <<priors, contexts, speakers, run, j, pc, speaker, no_productions,
          i, posteriors, posterior_list, passed, d, drawn, obs, post_list,
          probe>>

NoCall ==
    /\ speaker = None /\ no_productions = 0 /\ i = 0
    /\ posteriors = None /\ posterior_list = << >> /\ passed = None
    /\ d = None /\ drawn = None /\ obs = << >> /\ post_list = None

Init ==
    /\ priors \in {PriorUnbiased, PriorEgocentric}
    /\ contexts \in {ContextList(cycle) : cycle \in ContextCycles}
    /\ speakers \in {literal_speakers, prag_speakers}
    /\ run = 0 /\ j = 0 /\ pc = "main"
    /\ NoCall
    /\ probe = None

\* faulty variant: only the first call starts from the prior, later calls
\* go on from the posterior the previous call ended with
CallKeepingPosterior ==
    /\ pc = "main" /\ run < num_runs
    /\ speaker' = hypotheses[speakers[j]]
    /\ no_productions' = num_productions
    /\ posteriors' = IF posteriors = None THEN priors ELSE posteriors
    /\ posterior_list' = <<np_exp(posteriors')>>
    /\ i' = 0
    /\ passed' = None /\ d' = None /\ drawn' = None /\ obs' = << >>
    /\ post_list' = None
    /\ pc' = "loop"
    /\ UNCHANGED <<inputs, main_vars, probe>>

\* main calls simulation(hypotheses[speakers[j]], num_productions, priors,
\* speakers[j], contexts); simulation copies the prior and takes snapshot 0
Call ==
    /\ pc = "main" /\ run < num_runs
    /\ speaker' = hypotheses[speakers[j]]
    /\ no_productions' = num_productions
    /\ posteriors' = priors
    /\ posterior_list' = <<np_exp(priors)>>
    /\ i' = 0
    /\ passed' = None /\ d' = None /\ drawn' = None /\ obs' = << >>
    /\ post_list' = None
    /\ pc' = "loop"
    /\ UNCHANGED <<inputs, main_vars, probe>>

\* d = produce(speaker, contexts[i])
Produce ==
    /\ pc = "loop" /\ i < no_productions
    /\ ~calc_mental_state(speaker[1], contexts[i]).raised
    /\ \E outcome \in produce_outcomes(speaker, contexts[i]) :
          /\ d' = List2(outcome.signal, contexts[i])
          /\ drawn' = outcome
    /\ pc' = "update"
    /\ UNCHANGED <<inputs, main_vars, speaker, no_productions, i, posteriors,
                   posterior_list, passed, obs, post_list, probe>>

\* math.log raises inside produce: the exception leaves simulation and main
ProduceRaises ==
    /\ pc = "loop" /\ i < no_productions
    /\ calc_mental_state(speaker[1], contexts[i]).raised
    /\ pc' = "raised"
    /\ UNCHANGED <<inputs, main_vars, sim_vars, post_list, probe>>

\* faulty variant: the snapshot is appended before the posterior is updated
UpdateAfterSnapshot ==
    /\ pc = "update"
    /\ LET returned == update_posterior(posteriors, d[0], d[1])
       IN /\ ~returned.raised
          /\ posteriors' = returned.value
          /\ posterior_list' = Append(posterior_list, np_exp(posteriors))
    /\ passed' = posteriors
    /\ drawn' = None
    /\ obs' = Append(obs, d)
    /\ i' = i + 1
    /\ pc' = "loop"
    /\ UNCHANGED <<inputs, main_vars, speaker, no_productions, d,
                   post_list, probe>>

\* posteriors = update_posterior(posteriors, d[0], d[1]);
\* posterior_list.append(np.exp(posteriors)).  passed is the array that was
\* handed to update_posterior, as it is after the call.
Update ==
    /\ pc = "update"
    /\ LET returned == update_posterior(posteriors, d[0], d[1])
       IN /\ ~returned.raised
          /\ posteriors' = returned.value
          /\ posterior_list' = Append(posterior_list, np_exp(returned.value))
    /\ passed' = posteriors
    /\ drawn' = None
    /\ obs' = Append(obs, d)
    /\ i' = i + 1
    /\ pc' = "loop"
    /\ UNCHANGED <<inputs, main_vars, speaker, no_productions, d,
                   post_list, probe>>

\* math.log raises inside update_posterior
UpdateRaises ==
    /\ pc = "update"
    /\ update_posterior_raises(posteriors, d[1])
    /\ pc' = "raised"
    /\ UNCHANGED <<inputs, main_vars, sim_vars, post_list, probe>>

\* return np.swapaxes(np.array(posterior_list), 0, 1); main stores the rows
\* and moves to the next speaker, then to the next run
Return ==
    /\ pc = "loop" /\ i >= no_productions
    /\ post_list' = Tabulate([h \in DOMAIN hypotheses |->
                        Tabulate([t \in 0..(Len(posterior_list) - 1) |->
                                     posterior_list[t + 1][h]])])
    /\ IF j + 1 < Cardinality(DOMAIN speakers)
       THEN j' = j + 1 /\ run' = run
       ELSE j' = 0 /\ run' = run + 1
    /\ pc' = "main"
    /\ UNCHANGED <<inputs, sim_vars, probe>>

Next ==
    \/ Call
    \/ Produce
    \/ ProduceRaises
    \/ Update
    \/ UpdateRaises
    \/ Return

Spec == Init /\ [][Next]_vars


(***************************************************************************)
(* The listener functions on their own: the arguments are drawn from       *)
(* bounded sets and each function is called once for every signal.         *)
(***************************************************************************)
Rows ==
    {List3("1", "0", "0"), List3("0", "1", "0"), List3("0", "0", "1"),
     List3("1", "1", "0"), List3("1", "0", "1"), List3("0", "1", "1"),
     List3("1", "1", "1")}

ListenerLexicons ==
    {LexOneToOne, LexAllForLast, LexOneSignal}
    \cup {List3(row, List3("0", "1", "0"), List3("1", "1", "1")) : row \in Rows}

ListenerArguments ==
    [call : {"none"}, language : ListenerLexicons, perspective : perspectives,
     context : Contexts, meaning : meanings, returned : {None}]

ListenerInit ==
    /\ probe \in ListenerArguments
    /\ priors = PriorUnbiased
    /\ contexts = ContextList(<<List3(1, 2, 9)>>)
    /\ speakers = literal_speakers
    /\ run = 0 /\ j = 0 /\ pc = "listener"
    /\ NoCall

\* ref_distribution = calc_mental_state(perspective, context) raises
CallCalcMentalStateRaises ==
    /\ probe.call = "none"
    /\ calc_mental_state(probe.perspective, probe.context).raised
    /\ probe' = [probe EXCEPT !.call = "raised"]
    /\ UNCHANGED <<inputs, main_vars, pc, sim_vars, post_list>>

\* list1_lit_spkr(s, meaning, language, ref_distribution) for every signal s
CallList1LitSpkr ==
    /\ probe.call = "none"
    /\ LET ref_distribution == calc_mental_state(probe.perspective, probe.context)
       IN /\ ~ref_distribution.raised
          /\ probe' = [probe EXCEPT
                !.call = "list1_lit_spkr",
                !.returned = Tabulate([s \in DOMAIN signals |->
                    list1_lit_spkr(signals[s], probe.meaning, probe.language,
                                   ref_distribution.value)])]
    /\ UNCHANGED <<inputs, main_vars, pc, sim_vars, post_list>>

\* list2_spkr1(s, meaning, language, ref_distribution) for every signal s
CallList2Spkr1 ==
    /\ probe.call = "none"
    /\ LET ref_distribution == calc_mental_state(probe.perspective, probe.context)
       IN /\ ~ref_distribution.raised
          /\ probe' = [probe EXCEPT
                !.call = "list2_spkr1",
                !.returned = Tabulate([s \in DOMAIN signals |->
                    list2_spkr1(signals[s], probe.meaning, probe.language,
                                ref_distribution.value)])]
    /\ UNCHANGED <<inputs, main_vars, pc, sim_vars, post_list>>

ListenerNext ==
    \/ CallCalcMentalStateRaises
    \/ CallList1LitSpkr
    \/ CallList2Spkr1

SpecListener == ListenerInit /\ [][ListenerNext]_vars


(***************************************************************************)
(* The module-level code of learn_pragmatics.py that enumerates the        *)
(* lexicons and builds the language/perspective pairs with their priors,   *)
(* run on its own.  A string is the sequence of its characters; probe      *)
(* holds the loop variable i and the lists built so far.                   *)
(***************************************************************************)
RECURSIVE pow(_, _)
pow(b, e) == IF e = 0 THEN 1 ELSE b * pow(b, e - 1)

Digit(b) == IF b = 0 THEN "0" ELSE "1"

\* str(format(n, 'b')): the binary digits of n, most significant first
RECURSIVE format_b(_)
format_b(n) ==
    IF n < 2 THEN <<Digit(n)>> ELSE Append(format_b(n \div 2), Digit(n % 2))

\* while len(string) < 9: string = '0' + string
RECURSIVE pad(_)
pad(string) == IF Len(string) < 9 THEN pad(<<"0">> \o string) ELSE string

\* a slice bound of Python: a negative bound counts from the end
SliceBound(x, len) == IF x < 0 THEN Max2(len + x, 0) ELSE Min2(x, len)

\* string[start:stop]
Slice(string, start, stop) ==
    SubSeq(string, SliceBound(start, Len(string)) + 1,
                   SliceBound(stop, Len(string)))

\* string[k]
CharAt(string, k) == string[k + 1]

\* faulty variant: without the test len(string) >= 7
languages_body_untested(languages, n) ==
    LET string == pad(format_b(n))
    IN IF Slice(string, -3, Len(string)) # <<"0", "0", "0">>
          /\ Slice(string, 3, -3) # <<"0", "0", "0">>
       THEN Append(languages,
                List3(List3(CharAt(string, 0), CharAt(string, 1), CharAt(string, 2)),
                      List3(CharAt(string, 3), CharAt(string, 4), CharAt(string, 5)),
                      List3(CharAt(string, 6), CharAt(string, 7), CharAt(string, 8))))
       ELSE languages

\* the body of "for i in range(pow(2, 9), 0, -1)": languages after it
languages_body(languages, n) ==
    IF Len(format_b(n)) >= 7
    THEN LET string == pad(format_b(n))
         IN IF Slice(string, -3, Len(string)) # <<"0", "0", "0">>
               /\ Slice(string, 3, -3) # <<"0", "0", "0">>
            THEN Append(languages,
                     List3(List3(CharAt(string, 0), CharAt(string, 1), CharAt(string, 2)),
                           List3(CharAt(string, 3), CharAt(string, 4), CharAt(string, 5)),
                           List3(CharAt(string, 6), CharAt(string, 7), CharAt(string, 8))))
            ELSE languages
    ELSE languages

\* perspectives, as the list the loop runs over
perspectives_list == <<0, 1>>

LanguagesInit ==
    /\ probe = [call |-> "languages", i |-> pow(2, 9), languages |-> << >>,
                lp_pairs |-> << >>, priors_unbiased |-> << >>,
                priors_egocentric |-> << >>]
    /\ priors = PriorUnbiased
    /\ contexts = ContextList(<<List3(1, 2, 9)>>)
    /\ speakers = literal_speakers
    /\ run = 0 /\ j = 0 /\ pc = "languages"
    /\ NoCall

\* one iteration of for i in range(pow(2, 9), 0, -1)
LanguagesLoop ==
    /\ pc = "languages" /\ probe.call = "languages"
    /\ probe.i > 0
    /\ probe' = [probe EXCEPT !.i = @ - 1,
                              !.languages = languages_body(@, probe.i)]
    /\ UNCHANGED <<inputs, main_vars, pc, sim_vars, post_list>>

\* the range is exhausted: the loops over perspectives and languages start
LanguagesLoopEnds ==
    /\ pc = "languages" /\ probe.call = "languages"
    /\ probe.i = 0
    /\ probe' = [probe EXCEPT !.call = "lp_pairs"]
    /\ UNCHANGED <<inputs, main_vars, pc, sim_vars, post_list>>

\* one iteration of "for p in perspectives: for l in languages"
PairsLoop ==
    /\ pc = "languages" /\ probe.call = "lp_pairs"
    /\ Len(probe.lp_pairs) < Len(perspectives_list) * Len(probe.languages)
    /\ LET p == perspectives_list[(Len(probe.lp_pairs) \div Len(probe.languages)) + 1]
           l == probe.languages[(Len(probe.lp_pairs) % Len(probe.languages)) + 1]
           p_prior == IF p = p_learner THEN log(Frac(9, 10)) ELSE log(Frac(1, 10))
       IN probe' = [probe EXCEPT
             !.lp_pairs = Append(@, List2(l, p)),
             !.priors_unbiased =
                 Append(@, LAdd(log(RDiv(ROne, RInt(Len(perspectives_list)))),
                                log(RDiv(ROne, RInt(Len(probe.languages)))))),
             !.priors_egocentric =
                 Append(@, LAdd(p_prior,
                                log(RDiv(ROne, RInt(Len(probe.languages))))))]
    /\ UNCHANGED <<inputs, main_vars, pc, sim_vars, post_list>>

LanguagesNext ==
    \/ LanguagesLoop
    \/ LanguagesLoopEnds
    \/ PairsLoop

SpecLanguages == LanguagesInit /\ [][LanguagesNext]_vars

(***************************************************************************)
(* Properties.                                                             *)
(***************************************************************************)
Violates(perspective, context) ==
    \E m \in DOMAIN context : Abs(Tenths * perspective - context[m]) >= Tenths

ValidContexts ==
    {c \in Contexts : \A h \in DOMAIN hypotheses : ~Violates(hypotheses[h][1], c)}

\* neither log(0) nor a division by zero behind the value
IsFinite(x) == exp(x).n # << >> /\ \A f \in BagToSet(exp(x).d) : f # << >>

SumsToOne(distribution) == REq(RSum(distribution, DOMAIN distribution), ROne)

\* C1: the prior and every vector update_posterior returns in simulation is
\* a probability distribution over the hypothesis list: it has one entry per
\* hypothesis, as many as the vector passed in, and the log-sum-exp of the
\* log-posterior is 0, so every recorded snapshot sums to 1.
PosteriorNormalized ==
    /\ LEq(logsumexp(priors), log(ROne))
    /\ posteriors # None =>
          /\ DOMAIN posteriors = DOMAIN hypotheses
          /\ LEq(logsumexp(posteriors), log(ROne))
          /\ passed # None => DOMAIN posteriors = DOMAIN passed
    /\ \A t \in 1..Len(posterior_list) :
          /\ DOMAIN posterior_list[t] = DOMAIN hypotheses
          /\ SumsToOne(posterior_list[t])

\* update_posterior has returned twice in one simulation
PosteriorNormalizedWitness ==
    /\ pc = "loop" /\ Len(obs) >= 2
    /\ posteriors # priors
    /\ LEq(logsumexp(posteriors), log(ROne))


\* the listener update_posterior is to use for hypothesis h, by h's level,
\* with the mental state of h's own perspective
ListenerOf(h, signal, meaning, context) ==
    LET language == hypotheses[h][0]
        own_state == calc_mental_state(hypotheses[h][1], context).value
    IN IF hypotheses[h][2] = 0
       THEN list1_lit_spkr(signal, meaning, language, own_state)
       ELSE list2_spkr1(signal, meaning, language, own_state)

MarginalLikelihood ==
    Tabulate([x \in (DOMAIN hypotheses) \X Range(signals) \X ValidContexts |->
        logsumexp(Tabulate([m \in meanings |-> ListenerOf(x[1], x[2], m, x[3])]))])

\* u and v are proportional: u[h] * v[g] = u[g] * v[h]
Proportional(u, v) ==
    \A h \in DOMAIN u : \A g \in DOMAIN u :
        h < g => REq(RMul(u[h], v[g]), RMul(u[g], v[h]))

\* C2: in update_posterior the likelihood of every hypothesis is computed
\* with list1_lit_spkr when its level is 0 and with list2_spkr1 when it is
\* 1, from the mental state of the hypothesis's own perspective and the
\* observed context; what is added to posterior[h] is the log-sum-exp of
\* those values over the meanings, so the returned posterior is
\* proportional to the old one times that marginal likelihood.
ListenerByLevel ==
    (pc = "loop" /\ Len(obs) >= 1) =>
        LET t == Len(obs)
            signal == obs[t][0]
            context == obs[t][1]
            before == posterior_list[t]
            after == posterior_list[t + 1]
        IN /\ \A h \in DOMAIN hypotheses :
                 LEq(added_table[<<h, signal, context>>],
                     MarginalLikelihood[<<h, signal, context>>])
           /\ Proportional(after,
                 Tabulate([h \in DOMAIN hypotheses |->
                     RMul(before[h], exp(MarginalLikelihood[<<h, signal, context>>]))]))

\* an update has folded an observation into hypotheses of both levels
ListenerByLevelWitness ==
    /\ pc = "loop" /\ Len(obs) >= 1
    /\ \E h \in DOMAIN hypotheses : hypotheses[h][2] = 0 /\ posteriors[h] # priors[h]
    /\ \E h \in DOMAIN hypotheses : hypotheses[h][2] = 1 /\ posteriors[h] # priors[h]


\* what list2_spkr1 returned for signal s, without the ref_distribution term
ReturnedShare(s) ==
    LET ref_distribution == calc_mental_state(probe.perspective, probe.context).value
    IN exp(LSub(probe.returned[s], ref_distribution[probe.meaning]))

\* (1 - noise) * own + noise * (sum of others) / (num_signals - 1)
Mixed(own, others) ==
    RAdd(RMul(RSub(ROne, noise), own),
         RDiv(RMul(noise, RSum(others, DOMAIN others)), RInt(num_signals - 1)))

\* C3: for every meaning, lexicon, mental state and signal s, the noisy
\* production probability list2_spkr1 uses is
\* (1 - noise) * P[s] + noise * (sum of P[o] over o # s) / (num_signals - 1)
\* with P the raw distribution of spkr1_production_probs, whatever the
\* order in which the signals are processed.
NoiseFromRawProbabilities ==
    (pc = "listener" /\ probe.call = "list2_spkr1") =>
        LET ref_distribution == calc_mental_state(probe.perspective, probe.context).value
            P == np_exp(spkr1_production_probs(probe.meaning, probe.language,
                                               ref_distribution))
        IN \A s \in DOMAIN signals :
              REq(ReturnedShare(s),
                  Mixed(P[s], Tabulate([o \in DOMAIN P \ {s} |-> P[o]])))

\* what the loop of list2_spkr1 computes for the three signals: the term of
\* the signals before s is taken from their already noised entries, that of
\* the signals after s from their raw ones
NoisedInOrder(P) ==
    LET first == Mixed(P[0], <<P[1], P[2]>>)
        second == Mixed(P[1], <<first, P[2]>>)
        third == Mixed(P[2], <<first, second>>)
    IN List3(first, second, third)

\* C3, as the code has it: the entry of s mixes the raw P[s] with the
\* entries of the other signals as they stand when s is processed.
NoiseFromEntriesInOrder ==
    (pc = "listener" /\ probe.call = "list2_spkr1") =>
        LET ref_distribution == calc_mental_state(probe.perspective, probe.context).value
            P == np_exp(spkr1_production_probs(probe.meaning, probe.language,
                                               ref_distribution))
        IN \A s \in DOMAIN signals : REq(ReturnedShare(s), NoisedInOrder(P)[s])

\* list2_spkr1 has returned for a one-to-one lexicon, where the raw
\* probabilities of the signals differ
NoiseFromEntriesInOrderWitness ==
    /\ pc = "listener" /\ probe.call = "list2_spkr1"
    /\ probe.language = LexOneToOne
    /\ ~REq(ReturnedShare(0), ReturnedShare(1))

UsableSignals(language, meaning) ==
    {s \in DOMAIN signals : language[meaning][s] = "1"}

\* what list1_lit_spkr returned for signal s, without the ref_distribution term
LiteralShare(s) ==
    LET ref_distribution == calc_mental_state(probe.perspective, probe.context).value
    IN exp(LSub(probe.returned[s], ref_distribution[probe.meaning]))

\* C5: for every meaning and every lexicon whose row for the meaning has
\* k >= 1 usable signals, k = num_signals included, the sum over all signals
\* s of exp(list1_lit_spkr(s, meaning, lexicon, ref) - ref[meaning]) is 1:
\* a usable signal gets (1 - noise)/k, or 1/k when k = num_signals, and
\* every other signal gets noise/(num_signals - k).
LiteralListenerMass ==
    (pc = "listener" /\ probe.call = "list1_lit_spkr") =>
        LET usable == UsableSignals(probe.language, probe.meaning)
            k == Cardinality(usable)
        IN k >= 1 =>
              /\ REq(RSum(Tabulate([s \in DOMAIN signals |-> LiteralShare(s)]),
                          DOMAIN signals), ROne)
              /\ \A s \in usable :
                    REq(LiteralShare(s),
                        IF k = num_signals THEN RDiv(ROne, RInt(k))
                        ELSE RDiv(RSub(ROne, noise), RInt(k)))
              /\ \A s \in (DOMAIN signals) \ usable :
                    REq(LiteralShare(s), RDiv(noise, RInt(num_signals - k)))

\* list1_lit_spkr has returned for a row that uses every signal
LiteralListenerMassWitness ==
    /\ pc = "listener" /\ probe.call = "list1_lit_spkr"
    /\ Cardinality(UsableSignals(probe.language, probe.meaning)) = num_signals
    /\ REq(LiteralShare(0), RDiv(ROne, RInt(num_signals)))


\* the vectors u and v hold the same probabilities
SameDistribution(u, v) ==
    DOMAIN u = DOMAIN v /\ \A h \in DOMAIN u : REq(u[h], v[h])

\* C4: simulation performs exactly no_productions produce/update_posterior
\* steps in order, step t using contexts[t], and returns only then; it
\* returns no_productions + 1 snapshots, the first the exponentiated prior
\* and the (t+1)-th the posterior after exactly t observations are folded in.
ExactlyNumStepsSnapshots ==
    /\ pc \in {"loop", "update", "raised"} =>
          /\ i <= no_productions
          /\ Len(obs) = i
          /\ Len(posterior_list) = i + 1
          /\ posterior_list[1] = np_exp(priors)
          /\ \A t \in 1..Len(obs) : obs[t][1] = contexts[t - 1]
          /\ pc = "update" => d[1] = contexts[i]
    /\ post_list # None =>
          /\ i = no_productions
          /\ Len(obs) = no_productions
          /\ \A t \in 1..Len(obs) : obs[t][1] = contexts[t - 1]
          /\ DOMAIN post_list = DOMAIN hypotheses
          /\ \A h \in DOMAIN post_list :
                /\ DOMAIN post_list[h] = 0..no_productions
                /\ post_list[h][0] = exp(priors[h])
                /\ \A t \in 0..no_productions : post_list[h][t] = posterior_list[t + 1][h]
          /\ \A t \in 1..Len(obs) :
                SameDistribution(
                    posterior_list[t + 1],
                    np_exp(update_posterior(np_log(posterior_list[t]),
                                            obs[t][0], obs[t][1]).value))

\* a simulation has returned its snapshots after the last step
ExactlyNumStepsSnapshotsWitness ==
    /\ pc = "main" /\ post_list # None
    /\ Len(obs) = num_productions
    /\ DOMAIN post_list[0] = 0..num_productions
    /\ post_list[0][num_productions] # post_list[0][0]

\* C6: for a level-0 speaker and a sampled meaning whose row has exactly one
\* usable signal u, produce returns u when the noise branch is not taken;
\* when it is taken, the signal is drawn from the num_signals - 1 signals
\* other than u, each once, and is never u; the context returned is the
\* context passed in.
WinnerTakeAllBoundary ==
    (pc = "update" /\ speaker[2] = 0
        /\ Cardinality(UsableSignals(speaker[0], drawn.meaning)) = 1) =>
        LET u == signals[CHOOSE s \in UsableSignals(speaker[0], drawn.meaning) : TRUE]
        IN /\ ~drawn.noise_branch => d[0] = u
           /\ drawn.noise_branch =>
                 /\ d[0] # u
                 /\ d[0] \in drawn.other_signals
                 /\ drawn.other_signals = Range(signals) \ {u}
                 /\ Cardinality(drawn.other_signals) = num_signals - 1
           /\ d[1] = contexts[i]

\* the noise branch replaced the one usable signal "a" of a level-0 speaker
WinnerTakeAllBoundaryWitness ==
    /\ pc = "update" /\ speaker[2] = 0
    /\ UsableSignals(speaker[0], drawn.meaning) = {0}
    /\ drawn.noise_branch
    /\ d[0] = "c"

\* C7: if |perspective - c| >= 1 for an entry c of the context and the
\* perspective of some hypothesis, calc_mental_state raises, and so do
\* update_posterior and simulation when they reach that context: no
\* observation with such a context is ever folded in, nothing is returned
\* from the failing call, no posterior entry is log(0) or undefined, and the
\* posterior passed to update_posterior is as it was before the call.
DomainViolationRaises ==
    /\ \A p \in perspectives : \A c \in Contexts :
          calc_mental_state(p, c).raised <=> Violates(p, c)
    /\ \A t \in 1..Len(obs) : obs[t][1] \in ValidContexts
    /\ pc = "update" => ~Violates(speaker[1], d[1])
    /\ pc = "raised" =>
          /\ contexts[i] \notin ValidContexts
          /\ post_list = None
          /\ Len(posterior_list) = i + 1
          /\ np_exp(posteriors) = posterior_list[i + 1]
    /\ posteriors # None => \A h \in DOMAIN posteriors : IsFinite(posteriors[h])

\* update_posterior raised on the context of the observation just produced,
\* after an earlier update went through
DomainViolationRaisesWitness ==
    /\ pc = "raised" /\ i >= 1
    /\ d # None /\ d[1] = contexts[i]
    /\ ~Violates(speaker[1], contexts[i])
    /\ np_exp(posteriors) = posterior_list[i + 1]

\* C8: applying update_posterior twice with the same (signal, context)
\* to a normalized posterior start yields a posterior proportional to
\* start[h] * L_h^2, L_h the marginal likelihood of the observation under
\* hypothesis h.
DoubleUpdateSquaresLikelihood ==
    pc = "loop" =>
        \A t \in 1..(Len(obs) - 1) :
            obs[t] = obs[t + 1] =>
                LET start == posterior_list[t]
                    twice == posterior_list[t + 2]
                    L(h) == exp(MarginalLikelihood[<<h, obs[t][0], obs[t][1]>>])
                IN /\ SumsToOne(start)
                   /\ Proportional(twice,
                         Tabulate([h \in DOMAIN hypotheses |->
                             RMul(start[h], RPow(L(h), 2))]))

\* the same observation has been folded in twice in a row
DoubleUpdateSquaresLikelihoodWitness ==
    /\ pc = "loop" /\ Len(obs) >= 2
    /\ obs[1] = obs[2]
    /\ ~SameDistribution(posterior_list[2], posterior_list[3])

\* C9: for a level-0 speaker and a sampled meaning whose row has k usable
\* signals, 1 <= k < num_signals, the signal returned when the noise branch
\* is taken is not usable for that meaning and so differs from the
\* winner-take-all signal; when k = num_signals the branch is never taken.
NoiseSubstitutesOutOfLexicon ==
    (pc = "update" /\ speaker[2] = 0) =>
        LET usable == UsableSignals(speaker[0], drawn.meaning)
            k == Cardinality(usable)
        IN /\ (drawn.noise_branch /\ 1 <= k /\ k < num_signals) =>
                 /\ s_index(d[0]) \notin usable
                 /\ d[0] # drawn.intended
           /\ k = num_signals => ~drawn.noise_branch

\* the noise branch was taken for a row with two usable signals
NoiseSubstitutesOutOfLexiconWitness ==
    /\ pc = "update" /\ speaker[2] = 0
    /\ Cardinality(UsableSignals(speaker[0], drawn.meaning)) = 2
    /\ drawn.noise_branch

\* C10: simulation never modifies the prior or the contexts it is given
\* (the hypothesis list is a fixed definition), the array passed to
\* update_posterior keeps its contents, and every call of simulation starts
\* from the prior, whatever ran before it.
RunsIndependent ==
    [][/\ priors' = priors
       /\ contexts' = contexts
       /\ speakers' = speakers
       /\ (pc = "update" /\ pc' = "loop") => passed' = posteriors
       /\ (pc = "main" /\ pc' = "loop") =>
             /\ posteriors' = priors
             /\ posterior_list' = <<np_exp(priors)>>
             /\ obs' = << >>]_vars

\* a simulation of a later run starts from the prior after earlier
\* simulations moved their posterior away from it
RunsIndependentWitness ==
    /\ pc = "loop" /\ i = 0 /\ run >= 1
    /\ posteriors = priors
    /\ post_list = None


\* the sum, in probability space, of entries lo..hi of a list of log values
RECURSIVE ExpSum(_, _, _)
ExpSum(v, lo, hi) ==
    IF lo > hi THEN RZero
    ELSE IF lo = hi THEN exp(v[lo])
    ELSE LET mid == (lo + hi) \div 2
         IN RAdd(ExpSum(v, lo, mid), ExpSum(v, mid + 1, hi))

\* a 3x3 matrix of bits in which every row (meaning) has a usable signal
UsableLexicons == {List3(r0, r1, r2) : r0 \in Rows, r1 \in Rows, r2 \in Rows}

EnumerationDone ==
    /\ pc = "languages" /\ probe.call = "lp_pairs"
    /\ Len(probe.lp_pairs) = Len(perspectives_list) * Len(probe.languages)

\* C11: the generated list of languages holds only 3x3 bit matrices in which
\* every row has a usable signal, none of them twice, also after the loop's
\* first value 2^9; when the loop ends it holds all 343 of them; the unbiased
\* and the egocentric prior vectors have one entry per language/perspective
\* pair and, once built, each sums to 1 in probability space.
LexiconEnumeration ==
    pc = "languages" =>
      /\ \A k \in 1..Len(probe.languages) : probe.languages[k] \in UsableLexicons
      /\ Cardinality(Range(probe.languages)) = Len(probe.languages)
      /\ probe.i < pow(2, 9) /\ probe.i >= pow(2, 9) - 1 => probe.languages = << >>
      /\ Len(probe.priors_unbiased) = Len(probe.lp_pairs)
      /\ Len(probe.priors_egocentric) = Len(probe.lp_pairs)
      /\ probe.call = "lp_pairs" =>
            /\ Len(probe.languages) = 343
            /\ Range(probe.languages) = UsableLexicons
      /\ EnumerationDone =>
            /\ Range(probe.lp_pairs) =
                  {List2(l, p) : l \in UsableLexicons, p \in perspectives}
            /\ Len(probe.lp_pairs) = Cardinality(UsableLexicons) * Cardinality(perspectives)
            /\ REq(ExpSum(probe.priors_unbiased, 1, Len(probe.priors_unbiased)), ROne)
            /\ REq(ExpSum(probe.priors_egocentric, 1, Len(probe.priors_egocentric)), ROne)

LexiconEnumerationWitness ==
    /\ EnumerationDone
    /\ Len(probe.languages) = 343
    /\ probe.languages[1] = List3(List3("1", "1", "1"), List3("1", "1", "1"),
                                  List3("1", "1", "1"))
    /\ Len(probe.priors_unbiased) = 2 * 343
    /\ Len(probe.priors_egocentric) = 2 * 343

====
